---- MODULE Spec2Model ----
(***************************************************************************)
(* A model of the COVID-19 dashboard (src/app.py): the cached loader       *)
(* load_data_from_s3, the page script main with its guard empty_warning,   *)
(* and the two per-state aggregations draw_positive_state and              *)
(* draw_vaccination_state.                                                 *)
(*                                                                         *)
(* Values.  A cell of a table is a sequence of length 0 (missing: None,    *)
(* NaN, NaT) or of length 1 (the value).  A table is a record with its     *)
(* kind ("DataFrame" or "None"), its set of columns and its sequence of    *)
(* rows, a row being a function from the columns to cells.  A float that   *)
(* pandas computes as sum/count is kept exactly, as a reduced fraction.    *)
(***************************************************************************)
EXTENDS Integers, Sequences, FiniteSets, TLC

VARIABLES
    table,      \* the argument handed to an aggregation called on its own
    res,        \* what the last aggregation call did and returned
    clock,      \* the monotonic clock the cache reads, in seconds
    cache,      \* st.cache_data's entries of load_data_from_s3, by key
    reads,      \* history: per key, when the remote store was last read and
                \* what that call returned
    call,       \* the last call of load_data_from_s3 and what it did
    secrets,    \* st.secrets: the configured keys and their values
    run         \* the last run of main: its outcome, page and calls

vars == <<table, res, clock, cache, reads, call, secrets, run>>

-----------------------------------------------------------------------------
(* Bounds of the model *)

MaxRows == 3

MaxClock == 5400

\* the amounts of time that pass between two events
TickSteps == {1799, 1800}

-----------------------------------------------------------------------------
(* Program constants *)

\* @st.cache_data(ttl=3600)
TTL == 3600

-----------------------------------------------------------------------------
(* Cells, rows and tables *)

NA == <<>>

IsNA(c) == c = NA

Val(c) == c[1]

POSITIVE == "smoothed_wtested_positive_14d"

VACCINATED == "smoothed_wcovid_vaccinated"

AllColumns == {"geo_value", "state_abbr", "time_value", POSITIVE, VACCINATED}

\* state_abbr values of the model, in the order groupby sorts its keys
StateOrder == <<"CA", "TX">>

\* a row of the dataset: a county on a day
Row(st, tv, pos, vac) ==
    [c \in AllColumns |->
        CASE c = "geo_value"  -> <<"06001">>
          [] c = "state_abbr" -> st
          [] c = "time_value" -> tv
          [] c = POSITIVE     -> pos
          [] OTHER            -> vac]

NoneDf == [kind |-> "None", columns |-> {}, rows |-> <<>>]

DataFrame(cols, rws) == [kind |-> "DataFrame", columns |-> cols, rows |-> rws]

IsNone(df) == df.kind = "None"

\* DataFrame.empty: an axis of length 0
IsEmpty(df) == df.columns = {} \/ Len(df.rows) = 0

-----------------------------------------------------------------------------
(* Floats as exact fractions *)

RECURSIVE Gcd(_, _)
Gcd(a, b) == IF b = 0 THEN a ELSE Gcd(b, a % b)

Frac(n, d) == LET g == Gcd(n, d) IN [num |-> n \div g, den |-> d \div g]

FracLeq(a, b) == a.num * b.den <= b.num * a.den

NaN == <<>>

-----------------------------------------------------------------------------
(* pandas operations used by the aggregations *)

RECURSIVE SumCol(_, _)
SumCol(rws, col) ==
    IF rws = <<>> THEN 0 ELSE Val(Head(rws)[col]) + SumCol(Tail(rws), col)

\* DataFrame.dropna() with no subset: a row with any missing cell goes
dropna_any(df, col) ==
    DataFrame(df.columns,
              SelectSeq(df.rows, LAMBDA r : \A c \in df.columns : ~IsNA(r[c])))

\* df.dropna(subset=[col]): the rows whose cell in col is not missing, in order
dropna(df, col) ==
    DataFrame(df.columns, SelectSeq(df.rows, LAMBDA r : ~IsNA(r[col])))

\* df.groupby(key): the groups, one per key value present; rows whose key is
\* missing belong to no group (groupby's default dropna=True)
groupby(df, key) ==
    LET keys == {Val(df.rows[i][key]) :
                    i \in {j \in 1..Len(df.rows) : ~IsNA(df.rows[j][key])}}
    IN  [k \in keys |->
            SelectSeq(df.rows, LAMBDA r : ~IsNA(r[key]) /\ Val(r[key]) = k)]

\* the sum of each group instead of its mean
group_sum(groups, col) ==
    LET present == SelectSeq(StateOrder, LAMBDA k : k \in DOMAIN groups)
    IN  [i \in 1..Len(present) |->
            [state_abbr |-> present[i],
             value |-> Frac(SumCol(groups[present[i]], col), 1)]]

\* groups[col].mean().reset_index(): one row per group, in key order, with
\* the mean of col over the group's rows
group_mean(groups, col) ==
    LET present == SelectSeq(StateOrder, LAMBDA k : k \in DOMAIN groups)
    IN  [i \in 1..Len(present) |->
            [state_abbr |-> present[i],
             value |-> Frac(SumCol(groups[present[i]], col),
                            Len(groups[present[i]]))]]

\* the first value of the column instead of its least
series_first(state_df) ==
    IF state_df = <<>> THEN NaN ELSE <<state_df[1].value>>

\* Series.min(): NaN for an empty series
series_min(state_df) ==
    IF state_df = <<>> THEN NaN
    ELSE <<(CHOOSE v \in {state_df[i].value : i \in 1..Len(state_df)} :
              \A j \in 1..Len(state_df) : FracLeq(v, state_df[j].value))>>

\* Series.max(): NaN for an empty series
series_max(state_df) ==
    IF state_df = <<>> THEN NaN
    ELSE <<(CHOOSE v \in {state_df[i].value : i \in 1..Len(state_df)} :
              \A j \in 1..Len(state_df) : FracLeq(state_df[j].value, v))>>

-----------------------------------------------------------------------------
(* The aggregations *)

NoFig == [data |-> <<>>, range_color |-> <<NaN, NaN>>, scale |-> "", title |-> ""]

NoCall ==
    [fn |-> "none", metric |-> "", status |-> "none", error |-> "",
     steps |-> <<>>, df_copy |-> NoneDf, groups |-> <<>>, state_df |-> <<>>,
     min_rate |-> NaN, max_rate |-> NaN, fig |-> NoFig]

Raised(fn, metric, err, steps) ==
    [NoCall EXCEPT !.fn = fn, !.metric = metric, !.status = "raised",
                   !.error = err, !.steps = steps]

\* the body shared by draw_positive_state and draw_vaccination_state
draw_state(fn, df, metric, scale, title) ==
    IF IsNone(df) THEN
        \* None has no attribute dropna
        Raised(fn, metric, "AttributeError", <<>>)
    ELSE IF metric \notin df.columns THEN
        Raised(fn, metric, "KeyError", <<>>)
    ELSE IF "state_abbr" \notin df.columns THEN
        Raised(fn, metric, "KeyError", <<"dropna">>)
    ELSE
        LET df_copy  == dropna(df, metric)
            groups   == groupby(df_copy, "state_abbr")
            state_df == group_mean(groups, metric)
            min_rate == series_min(state_df)
            max_rate == series_max(state_df)
        IN  [fn |-> fn, metric |-> metric, status |-> "ok", error |-> "",
             steps |-> <<"dropna", "groupby", "mean", "min", "max", "choropleth">>,
             df_copy |-> df_copy, groups |-> groups, state_df |-> state_df,
             min_rate |-> min_rate, max_rate |-> max_rate,
             fig |-> [data |-> state_df, range_color |-> <<min_rate, max_rate>>,
                      scale |-> scale, title |-> title]]

draw_positive_state(df) ==
    draw_state("draw_positive_state", df, POSITIVE, "Reds",
               "Average COVID-19 Positive Test Rate by State")

draw_vaccination_state(df) ==
    draw_state("draw_vaccination_state", df, VACCINATED, "Greens",
               "Average COVID-19 Vaccination Rate by State")

-----------------------------------------------------------------------------
(* Page elements.  The text of an element is a sequence of tokens, so that   *)
(* what a message names is read off the message itself.                     *)

Element(kind, text) == [kind |-> kind, text |-> text]

Mentions(el, token) == \E i \in 1..Len(el.text) : el.text[i] = token

-----------------------------------------------------------------------------
(* The remote store: what pd.read_parquet(s3_path) can come back with *)

Chars_2021_01_07 == <<"2", "0", "2", "1", "-", "0", "1", "-", "0", "7">>

Chars_2021_02_12 == <<"2", "0", "2", "1", "-", "0", "2", "-", "1", "2">>

Chars_2021_02_30 == <<"2", "0", "2", "1", "-", "0", "2", "-", "3", "0">>

Chars_not_a_date == <<"n", "o", "t", "-", "a", "-", "d", "a", "t", "e">>

RawScenario ==
    DataFrame(AllColumns,
        <<Row(<<"CA">>, <<Chars_2021_01_07>>, <<10>>, <<30>>),
          Row(<<"CA">>, <<Chars_not_a_date>>, <<20>>, NA),
          Row(<<"TX">>, <<Chars_2021_02_30>>, NA, <<30>>)>>)

RawOther ==
    DataFrame(AllColumns, <<Row(<<"TX">>, <<Chars_2021_02_12>>, <<20>>, <<30>>)>>)

RawEmpty == DataFrame(AllColumns, <<>>)

\* a table of one row without the column col
Without(col) ==
    DataFrame(AllColumns \ {col},
        <<[c \in AllColumns \ {col} |->
             Row(<<"CA">>, <<Chars_2021_01_07>>, <<10>>, <<30>>)[c]]>>)

RawNoTime == Without("time_value")

RawNoPositive == Without(POSITIVE)

ReadOk(df) == [kind |-> "ok", df |-> df, exc |-> ""]

ReadFails(exc) == [kind |-> "error", df |-> NoneDf, exc |-> exc]

\* the store unreachable, the credentials refused, a file that is no Parquet
ReadErrors == {"OSError", "PermissionError", "ArrowInvalid"}

RemoteOutcomes ==
    {ReadOk(df) : df \in {RawScenario, RawOther, RawEmpty, RawNoTime, RawNoPositive}}
    \cup {ReadFails(e) : e \in ReadErrors}

-----------------------------------------------------------------------------
(* pd.to_datetime(col, format='%Y-%m-%d', errors='coerce') *)

Digits == {"0", "1", "2", "3", "4", "5", "6", "7", "8", "9"}

DigitVal(c) ==
    CASE c = "0" -> 0 [] c = "1" -> 1 [] c = "2" -> 2 [] c = "3" -> 3
      [] c = "4" -> 4 [] c = "5" -> 5 [] c = "6" -> 6 [] c = "7" -> 7
      [] c = "8" -> 8 [] OTHER -> 9

IsLeap(y) == (y % 4 = 0 /\ y % 100 /= 0) \/ y % 400 = 0

DaysIn(y, m) ==
    IF m = 2 THEN (IF IsLeap(y) THEN 29 ELSE 28)
    ELSE IF m \in {4, 6, 9, 11} THEN 30 ELSE 31

\* one cell: text of the form YYYY-MM-DD naming a day of the calendar becomes
\* that date, anything else becomes NaT
to_datetime_cell(c) ==
    IF IsNA(c) THEN NA
    ELSE LET t == Val(c) IN
         IF /\ Len(t) = 10
            /\ t[5] = "-" /\ t[8] = "-"
            /\ \A i \in {1, 2, 3, 4, 6, 7, 9, 10} : t[i] \in Digits
         THEN LET y == 1000 * DigitVal(t[1]) + 100 * DigitVal(t[2])
                        + 10 * DigitVal(t[3]) + DigitVal(t[4])
                  m == 10 * DigitVal(t[6]) + DigitVal(t[7])
                  d == 10 * DigitVal(t[9]) + DigitVal(t[10])
              IN  IF m \in 1..12 /\ d \in 1..DaysIn(y, m)
                  THEN <<[y |-> y, m |-> m, d |-> d]>>
                  ELSE NA
         ELSE NA

\* df['time_value'] = pd.to_datetime(df['time_value'], ...)
to_datetime_column(df) ==
    DataFrame(df.columns,
        [i \in 1..Len(df.rows) |->
            [df.rows[i] EXCEPT !["time_value"] = to_datetime_cell(@)]])

-----------------------------------------------------------------------------
(* load_data_from_s3: its body, and the cache st.cache_data puts around it *)

\* a handler that lets the KeyError of a missing column through
Catches_ReadErrorsOnly(exc) == exc \in ReadErrors

\* except Exception: every failure of the read or of the conversion is one
Catches(exc) == exc \in ReadErrors \cup {"KeyError"}

\* st.error("Error loading data from database")
LoadError(bucket, prefix, exc) ==
    Element("error", <<"Error loading data from database">>)

Returned(df, msgs) == [value |-> df, msgs |-> msgs, raised |-> ""]

Propagated(exc) == [value |-> NoneDf, msgs |-> <<>>, raised |-> exc]

Handle(bucket, prefix, exc) ==
    IF Catches(exc) THEN Returned(NoneDf, <<LoadError(bucket, prefix, exc)>>)
    ELSE Propagated(exc)

\* the function under the decorator, given what the remote read comes back with
load_body(bucket, prefix, remote) ==
    IF remote.kind = "error" THEN Handle(bucket, prefix, remote.exc)
    ELSE IF "time_value" \notin remote.df.columns
         THEN Handle(bucket, prefix, "KeyError")
         ELSE Returned(to_datetime_column(remote.df), <<>>)

CacheKey(bucket, prefix) == <<bucket, prefix>>

\* an entry that never expires
Fresh_Forever(entry, now) == TRUE

\* an entry lives while less than ttl seconds have passed since it was stored
Fresh(entry, now) == now < entry.stamp + TTL

\* only tables are stored, a None is computed again
Store_TablesOnly(c, key, out, now) ==
    LET live == [k \in {j \in DOMAIN c : Fresh(c[j], now) /\ j /= key} |-> c[k]]
    IN  IF IsNone(out.value) THEN live
        ELSE (key :> [value |-> out.value, msgs |-> out.msgs, stamp |-> now]) @@ live

\* storing a returned value: expired entries are dropped, the value and the
\* elements the call emitted are kept with the time of the call
Store(c, key, out, now) ==
    LET live == [k \in {j \in DOMAIN c : Fresh(c[j], now)} |-> c[k]]
    IN  (key :> [value |-> out.value, msgs |-> out.msgs, stamp |-> now]) @@ live

\* load_data_from_s3(bucket, prefix) at time now: what the caller gets
\* (value, msgs, raised), whether the remote store was read, and the cache after
load_data_from_s3(c, now, bucket, prefix, remote) ==
    LET key == CacheKey(bucket, prefix) IN
    IF key \in DOMAIN c /\ Fresh(c[key], now)
    THEN [value |-> c[key].value, msgs |-> c[key].msgs, raised |-> "",
          read |-> FALSE, cache |-> c]
    ELSE LET out == load_body(bucket, prefix, remote)
         IN  [value |-> out.value, msgs |-> out.msgs, raised |-> out.raised,
              read |-> TRUE,
              cache |-> IF out.raised = "" THEN Store(c, key, out, now) ELSE c]

NoLoad ==
    [key |-> <<"", "">>, time |-> 0, remote |-> ReadFails(""), read |-> FALSE,
     value |-> NoneDf, msgs |-> <<>>, raised |-> ""]

\* the record of a call, and of the remote read it made if it made one
Recorded(bucket, prefix, remote, got) ==
    /\ call' = [key |-> <<bucket, prefix>>, time |-> clock, remote |-> remote,
                read |-> got.read, value |-> got.value, msgs |-> got.msgs,
                raised |-> got.raised]
    /\ reads' = IF got.read
                THEN (<<bucket, prefix>> :> [time |-> clock, value |-> got.value,
                                              raised |-> got.raised]) @@ reads
                ELSE reads

\* the locations the loader is called with
LoaderKeys == {<<"b1", "p1">>, <<"b1", "p2">>}

Tick(d) ==
    /\ clock + d <= MaxClock
    /\ clock' = clock + d
    /\ UNCHANGED <<table, res, cache, reads, call, secrets, run>>

LoadCall(bucket, prefix, remote) ==
    LET got == load_data_from_s3(cache, clock, bucket, prefix, remote) IN
    /\ cache' = got.cache
    /\ Recorded(bucket, prefix, remote, got)
    /\ UNCHANGED <<table, res, clock, secrets, run>>

-----------------------------------------------------------------------------
(* main: one run of the page script *)

\* a lookup that answers a default for an absent key, as st.secrets.get does
secrets_get(s, k) ==
    IF k \in DOMAIN s THEN [ok |-> TRUE, value |-> s[k]]
    ELSE [ok |-> TRUE, value |-> ""]

\* st.secrets[k]: the value, or a KeyError for an absent key
secrets_getitem(s, k) ==
    IF k \in DOMAIN s THEN [ok |-> TRUE, value |-> s[k]]
    ELSE [ok |-> FALSE, value |-> ""]

\* the st.error of empty_warning (the cross-mark glyph that opens the text in
\* the source is left out here and in ConfigNotFound)
UnableToLoad ==
    Element("error",
        <<"Unable to load data. Please check your db configuration and credentials.">>)

\* a guard that tests only for None
empty_warning_NoneOnly(df) ==
    IF IsNone(df) THEN [ok |-> FALSE, msgs |-> <<UnableToLoad>>]
    ELSE [ok |-> TRUE, msgs |-> <<>>]

\* empty_warning(df): False, with an st.error, for None and for an empty table
empty_warning(df) ==
    IF IsNone(df) \/ IsEmpty(df) THEN [ok |-> FALSE, msgs |-> <<UnableToLoad>>]
    ELSE [ok |-> TRUE, msgs |-> <<>>]

Header ==
    <<Element("markdown", <<"COVID-19 Data Dashboard">>), Element("markdown", <<"---">>)>>

ConfigNotFound ==
    <<Element("error", <<"S3 configuration not found in secrets.toml">>),
      Element("info",
          <<"Please add the following to .streamlit/secrets.toml:",
            "S3_BUCKET", "=", "your-bucket-name",
            "S3_PREFIX", "=", "your-prefix-path/">>)>>

DataIntro ==
    <<Element("write", <<"### Data Intro">>), Element("markdown", <<"db_intro">>)>>

Chart(fig) == Element("plotly_chart", <<fig.title>>)

\* what a run leaves: its outcome, the table it loaded, the page, the calls it
\* made in order, and the configuration it ran under
Ended(s, outcome, df, page, trace, got) ==
    [run |-> [outcome |-> outcome, config |-> s, df |-> df, page |-> page,
              trace |-> trace],
     loaded |-> Len(trace) > 0, got |-> got]

NoGot ==
    [bucket |-> "", prefix |-> "", value |-> NoneDf, msgs |-> <<>>, raised |-> "",
     read |-> FALSE, cache |-> <<>>]

\* main() at time now, given the configuration, the cache and what a remote
\* read would come back with: the run, and the loader call if one was made.
\* The spinner shown while loading leaves nothing on the page.
main(s, c, now, remote) ==
    LET b == secrets_getitem(s, "S3_BUCKET")
        p == secrets_getitem(s, "S3_PREFIX")
    IN
    IF ~b.ok \/ ~p.ok THEN
        Ended(s, "config_missing", NoneDf, Header \o ConfigNotFound, <<>>, NoGot)
    ELSE
    LET got   == [bucket |-> b.value, prefix |-> p.value]
                     @@ load_data_from_s3(c, now, b.value, p.value, remote)
        df    == got.value
        page1 == Header \o got.msgs
        guard == empty_warning(df)
    IN
    IF got.raised /= "" THEN
        Ended(s, "crash", NoneDf, page1, <<"load_data_from_s3">>, got)
    ELSE IF ~guard.ok THEN
        Ended(s, "no_data", df, page1 \o guard.msgs,
              <<"load_data_from_s3", "empty_warning">>, got)
    ELSE
    LET pos   == draw_positive_state(df)
        vac   == draw_vaccination_state(df)
        page2 == page1 \o DataIntro
        t2    == <<"load_data_from_s3", "empty_warning", "draw_positive_state">>
    IN
    IF pos.status = "raised" THEN Ended(s, "crash", df, page2, t2, got)
    ELSE IF vac.status = "raised" THEN
        Ended(s, "crash", df, Append(page2, Chart(pos.fig)),
              t2 \o <<"plotly_chart", "draw_vaccination_state">>, got)
    ELSE
        Ended(s, "rendered", df,
              page2 \o <<Chart(pos.fig), Chart(vac.fig)>>,
              t2 \o <<"plotly_chart", "draw_vaccination_state", "plotly_chart">>,
              got)

\* the configurations: each of the two keys present or absent
SecretConfigs ==
    {[k \in K |-> IF k = "S3_BUCKET" THEN "b1" ELSE "p1"] :
        K \in SUBSET {"S3_BUCKET", "S3_PREFIX"}}

RunMain(remote) ==
    LET m == main(secrets, cache, clock, remote) IN
    /\ run' = m.run
    /\ IF m.loaded
       THEN /\ cache' = m.got.cache
            /\ Recorded(m.got.bucket, m.got.prefix, remote, m.got)
       ELSE UNCHANGED <<cache, call, reads>>
    /\ UNCHANGED <<table, res, clock, secrets>>

EditSecrets(s) ==
    /\ s /= secrets
    /\ secrets' = s
    /\ UNCHANGED <<table, res, clock, cache, reads, call, run>>

-----------------------------------------------------------------------------
(* Aggregations called on their own, on every table of the bounded universe *)

ADate == <<[y |-> 2021, m |-> 1, d |-> 7]>>

\* the rows the input tables are made of: every state_abbr (or none) with
\* every positive rate (or none), rows that carry a vaccination rate only,
\* and rows without a time_value
AggRows ==
    {Row(st, ADate, pos, NA) :
        st \in {<<"CA">>, <<"TX">>, NA}, pos \in {NA, <<10>>, <<20>>}}
    \cup {Row(st, ADate, NA, vac) : st \in {<<"CA">>, <<"TX">>}, vac \in {<<30>>, <<60>>}}
    \cup {Row(<<"CA">>, NA, <<20>>, <<30>>), Row(NA, NA, NA, <<60>>)}

RECURSIVE SeqsUpTo(_, _)
SeqsUpTo(S, n) ==
    IF n = 0 THEN {<<>>}
    ELSE LET shorter == SeqsUpTo(S, n - 1)
         IN  shorter \cup {Append(s, x) : s \in {t \in shorter : Len(t) = n - 1}, x \in S}

\* no table, and every table of at most n rows
AggInputs(n) ==
    {NoneDf} \cup {DataFrame(AllColumns, rws) : rws \in SeqsUpTo(AggRows, n)}

CallDrawPositiveState ==
    /\ res' = draw_positive_state(table)
    /\ UNCHANGED <<table, clock, cache, reads, call, secrets, run>>

CallDrawVaccinationState ==
    /\ res' = draw_vaccination_state(table)
    /\ UNCHANGED <<table, clock, cache, reads, call, secrets, run>>

-----------------------------------------------------------------------------
(* The specifications *)

NoRun ==
    [outcome |-> "none", config |-> <<>>, df |-> NoneDf, page |-> <<>>,
     trace |-> <<>>]

Idle ==
    /\ table = NoneDf
    /\ res = NoCall
    /\ clock = 0
    /\ cache = <<>>
    /\ reads = <<>>
    /\ call = NoLoad
    /\ secrets = <<>>
    /\ run = NoRun

\* the aggregations, called on their own on every table of the universe
InitAgg ==
    /\ table \in AggInputs(MaxRows)
    /\ res = NoCall
    /\ clock = 0 /\ cache = <<>> /\ reads = <<>> /\ call = NoLoad
    /\ secrets = <<>> /\ run = NoRun

NextAgg == CallDrawPositiveState \/ CallDrawVaccinationState

SpecAgg == InitAgg /\ [][NextAgg]_vars

\* the loader, called on its own with any location while time passes
InitLoader == Idle

NextLoader ==
    \/ \E d \in TickSteps : Tick(d)
    \/ \E key \in LoaderKeys, remote \in RemoteOutcomes :
          LoadCall(key[1], key[2], remote)

SpecLoader == InitLoader /\ [][NextLoader]_vars

\* the page: runs of main as time passes and the configuration is edited
Init ==
    /\ secrets \in SecretConfigs
    /\ table = NoneDf /\ res = NoCall
    /\ clock = 0 /\ cache = <<>> /\ reads = <<>> /\ call = NoLoad
    /\ run = NoRun

Next ==
    \/ \E d \in TickSteps : Tick(d)
    \/ \E s \in SecretConfigs : EditSecrets(s)
    \/ \E remote \in RemoteOutcomes : RunMain(remote)

Spec == Init /\ [][Next]_vars

-----------------------------------------------------------------------------
(* Properties of the loader, checked under SpecLoader *)

GenericLoadError == Element("error", <<"Error loading data from database">>)

LoadStep == call' /= call

\* the remote read of the call's location that is still within its window
InWindow(k, t) == k \in DOMAIN reads /\ t - reads[k].time < TTL

\* C1: two loads of the same (bucket_name, prefix) within the 3600 s window
\* return the same table and the second reads nothing from the remote store;
\* a load with no read of its location in the last 3600 s reads it afresh.
C1_CacheWindow ==
    [][LoadStep =>
         IF InWindow(call'.key, call'.time)
         THEN ~call'.read /\ call'.value = reads[call'.key].value
         ELSE call'.read /\ reads'[call'.key].time = call'.time]_vars

\* a load answered from the cache one second before its entry expires, while
\* the remote store holds another table
C1_Witness ==
    /\ call /= NoLoad /\ ~call.read
    /\ call.time - reads[call.key].time = TTL - 1
    /\ ~IsNone(call.value)
    /\ call.remote = ReadOk(RawOther)
    /\ call.value = to_datetime_column(RawScenario)

FailedRead(remote) ==
    remote.kind = "error" \/ "time_value" \notin remote.df.columns

C10_FailureCached ==
    [][(/\ LoadStep
        /\ call'.key \in DOMAIN reads
        /\ IsNone(reads[call'.key].value) /\ reads[call'.key].raised = "")
       => IF call'.time - reads[call'.key].time < TTL
          THEN ~call'.read /\ IsNone(call'.value) /\ call'.raised = ""
          ELSE call'.read]_vars

\* None answered from the cache while the remote store is readable
C10_Witness ==
    /\ call /= NoLoad /\ ~call.read /\ IsNone(call.value)
    /\ call.msgs = <<GenericLoadError>>
    /\ call.remote = ReadOk(RawScenario)
    /\ call.time > reads[call.key].time

-----------------------------------------------------------------------------
(* Properties of a run of main, checked under Spec *)

HasKind(page, kind) == \E i \in 1..Len(page) : page[i].kind = kind

Loaded == \E i \in 1..Len(run.trace) : run.trace[i] = "load_data_from_s3"

LoadedEmpty == Loaded /\ ~IsNone(run.df) /\ IsEmpty(run.df)

LoadFailed == Loaded /\ run.outcome /= "crash" /\ IsNone(run.df)

\* C3: a read that succeeded with zero rows is shown as a "no data" warning
\* and not as an error, a read that failed is shown as the generic error, and
\* the two never look the same.
C3_EmptyIsWarningNotError ==
    /\ LoadedEmpty => (HasKind(run.page, "warning") /\ ~HasKind(run.page, "error"))
    /\ LoadFailed => \E i \in 1..Len(run.page) : run.page[i] = GenericLoadError

ConfigIncomplete(s) == ~({"S3_BUCKET", "S3_PREFIX"} \subseteq DOMAIN s)

IsDraw(f) == f \in {"draw_positive_state", "draw_vaccination_state"}

\* C5: in a run of main an aggregation is called only after load_data_from_s3
\* has returned a table that is neither None nor empty; when the table is
\* None or empty the run signals it and ends with no aggregation, no rendering
\* and no crash.
C5_AggregationAfterLoad ==
    /\ \A i \in 1..Len(run.trace) :
           IsDraw(run.trace[i]) =>
               /\ \E j \in 1..(i - 1) : run.trace[j] = "load_data_from_s3"
               /\ ~IsNone(run.df) /\ ~IsEmpty(run.df)
    /\ (Loaded /\ (IsNone(run.df) \/ IsEmpty(run.df))) =>
           /\ run.outcome = "no_data"
           /\ run.page[Len(run.page)] = UnableToLoad
           /\ \A i \in 1..Len(run.trace) :
                  ~IsDraw(run.trace[i]) /\ run.trace[i] /= "plotly_chart"
           /\ ~HasKind(run.page, "plotly_chart")

\* a run that loaded a table of zero rows
C5_Witness == LoadedEmpty /\ run.outcome = "no_data"

-----------------------------------------------------------------------------
(* Properties of the aggregations, checked under SpecAgg *)

Count(rws, x) == Cardinality({i \in 1..Len(rws) : rws[i] = x})

\* the rows of the input, by index, that have a value in col and the state st
IdxOf(st, col) ==
    {i \in 1..Len(table.rows) :
        /\ ~IsNA(table.rows[i][col])
        /\ ~IsNA(table.rows[i]["state_abbr"])
        /\ Val(table.rows[i]["state_abbr"]) = st}

RECURSIVE SumIdx(_, _)
SumIdx(I, col) ==
    IF I = {} THEN 0
    ELSE LET i == CHOOSE j \in I : TRUE
         IN  Val(table.rows[i][col]) + SumIdx(I \ {i}, col)

Called == res.fn /= "none" /\ ~IsNone(table)

\* C6: the state summary has exactly one row per state_abbr that has a row
\* with a value of the metric, its value is the arithmetic mean of the metric
\* over exactly those rows of the state, and a state all of whose rows lack
\* the metric does not appear.
C6_StateSummary ==
    Called =>
        LET M  == res.metric
            S  == {st \in {"CA", "TX"} : IdxOf(st, M) /= {}}
            sd == res.state_df
        IN  /\ res.status = "ok"
            /\ Len(sd) = Cardinality(S)
            /\ {sd[i].state_abbr : i \in 1..Len(sd)} = S
            /\ \A i \in 1..Len(sd) :
                   LET I == IdxOf(sd[i].state_abbr, M)
                   IN  sd[i].value.num * Cardinality(I)
                           = SumIdx(I, M) * sd[i].value.den

\* rows CA:10, CA:20 and TX:missing give the one row CA with mean 15
C6_Witness ==
    /\ res.fn = "draw_positive_state"
    /\ table.rows = <<Row(<<"CA">>, ADate, <<10>>, NA),
                      Row(<<"CA">>, ADate, <<20>>, NA),
                      Row(<<"TX">>, ADate, NA, <<30>>)>>
    /\ res.state_df = <<[state_abbr |-> "CA", value |-> [num |-> 15, den |-> 1]]>>

RECURSIVE GroupCount(_, _, _)
GroupCount(groups, K, x) ==
    IF K = {} THEN 0
    ELSE LET k == CHOOSE j \in K : TRUE
         IN  Count(groups[k], x) + GroupCount(groups, K \ {k}, x)

\* C7, as claimed: the rows that contribute to the per-state groups are the
\* rows of T with a value of M, each as often as in T, a missing state_abbr
\* or time_value notwithstanding.
C7_AllValuedRowsGrouped ==
    (Called /\ res.status = "ok") =>
        \A x \in AggRows :
            GroupCount(res.groups, DOMAIN res.groups, x)
                = IF IsNA(x[res.metric]) THEN 0 ELSE Count(table.rows, x)

\* C7, amended: the rows handed to the grouping are the rows of T with a
\* value of M, each as often as in T and in T's order, whatever their
\* time_value; of these, the rows that have a state_abbr contribute to the
\* groups, each to the group of its state, and the others to none.
C7_FilteredThenGrouped ==
    (Called /\ res.status = "ok") =>
        /\ \A x \in AggRows :
               /\ Count(res.df_copy.rows, x)
                      = IF IsNA(x[res.metric]) THEN 0 ELSE Count(table.rows, x)
               /\ GroupCount(res.groups, DOMAIN res.groups, x)
                      = IF IsNA(x[res.metric]) \/ IsNA(x["state_abbr"]) THEN 0
                        ELSE Count(table.rows, x)
        /\ \A k \in DOMAIN res.groups :
               \A i \in 1..Len(res.groups[k]) :
                   res.groups[k][i]["state_abbr"] = <<k>>
        /\ \E f \in [1..Len(res.df_copy.rows) -> 1..Len(table.rows)] :
               /\ \A i \in DOMAIN f : res.df_copy.rows[i] = table.rows[f[i]]
               /\ \A i, j \in DOMAIN f : i < j => f[i] < f[j]

\* a row with a value and no time_value is grouped, a row with a value and no
\* state_abbr is handed to the grouping and lands in no group
C7_Witness ==
    /\ res.fn = "draw_positive_state" /\ res.status = "ok"
    /\ table.rows = <<Row(<<"CA">>, NA, <<20>>, <<30>>), Row(NA, ADate, <<10>>, NA)>>
    /\ Len(res.df_copy.rows) = 2
    /\ DOMAIN res.groups = {"CA"}

\* C8: min_rate <= every per-state mean <= max_rate; with one state the two
\* are equal; and when the filter leaves no row the range is computed without
\* an error.
C8_Range ==
    Called =>
        LET sd == res.state_df IN
        /\ res.status = "ok"
        /\ sd = <<>> => (res.min_rate = NaN /\ res.max_rate = NaN)
        /\ sd /= <<>> =>
               /\ res.min_rate /= NaN /\ res.max_rate /= NaN
               /\ \A i \in 1..Len(sd) :
                      /\ FracLeq(Val(res.min_rate), sd[i].value)
                      /\ FracLeq(sd[i].value, Val(res.max_rate))
               /\ \E i \in 1..Len(sd) : sd[i].value = Val(res.min_rate)
               /\ \E i \in 1..Len(sd) : sd[i].value = Val(res.max_rate)
        /\ Len(sd) = 1 => res.min_rate = res.max_rate
        /\ res.fig.range_color = <<res.min_rate, res.max_rate>>

\* two states whose means differ, the larger one first
C8_Witness ==
    /\ res.status = "ok" /\ Len(res.state_df) = 2
    /\ res.state_df[1].value = [num |-> 20, den |-> 1]
    /\ res.min_rate = <<[num |-> 10, den |-> 1]>>
    /\ res.max_rate = <<[num |-> 20, den |-> 1]>>

\* C9: called with no table, an aggregation fails at once with an "empty
\* input" signal: it filters, groups and renders nothing, and no error of
\* another kind results.
C9_NoneIsEmptyInput ==
    (res.fn /= "none" /\ IsNone(table)) =>
        /\ res.status = "raised"
        /\ res.steps = <<>>
        /\ res.error = "EmptyInput"

====
